---- MODULE Spec2Model ----
(***************************************************************************)
(* The cache plugin of mosdns (dispatcher/plugin/cache/cache.go) as a      *)
(* state machine: concurrent query tasks run the plugin in executor mode   *)
(* (ExecES, rest of the chain, deferred store) or in connector mode        *)
(* (Connect around the rest of the chain) against one shared DnsCache.     *)
(* Response messages are heap objects: a context holds a reference either  *)
(* to a message of its own or to the message held by a cache entry, so     *)
(* that sharing between the cache and a reply is observable.               *)
(* SpecEq runs one query in both modes side by side, SpecW is the          *)
(* handler.PluginWrapper with its dispatches, SpecH the hosts table with   *)
(* its loader and matchAndSet.                                             *)
(***************************************************************************)
EXTENDS Integers, Sequences, FiniteSets, TLC

\* ---------------------------------------------------------------- bounds
\* how many times the clock advances
MaxTicks == 1
\* how many lines a hosts table has, the table of the test aside
MaxLines == 2

\* ------------------------------------------------------ program constants
\* time.Duration is counted in ticks of half a second
Second == 2
maxTTL == 3600 * 24 * 7
RcodeSuccess == 0

Tasks == {1, 2}
\* the message IDs the queries of a task carry: the two tasks differ, so an
\* entry stored for one task's query is looked up under another ID by the other
QueryIDs(t) == {t}

\* ------------------------------------------------------------- messages
\* questions: (name, type, class); the second one cannot be packed
QA == [Name |-> "dns.google.", Qtype |-> 1, Qclass |-> 1]
QMalformed == [Name |-> "", Qtype |-> 1, Qclass |-> 1]
Questions == {QA, QMalformed}

NilMsg == [nil |-> TRUE]


\* a reference to a message: nil, a message owned by the holder, or the
\* message object held by the cache entry of a key
Nil == [ref |-> "nil"]
Own(m) == [ref |-> "own", m |-> m]
Shared(k) == [ref |-> "cache", key |-> k]

NoEntry == [present |-> FALSE]

Deref(p, c) ==
    IF p.ref = "own" THEN p.m
    ELSE IF p.ref = "cache" /\ c[p.key] # NoEntry THEN c[p.key].v
    ELSE NilMsg

\* *p = m
Assign(p, c, m) ==
    IF p.ref = "own" THEN [r |-> Own(m), c |-> c]
    ELSE IF p.ref = "cache" /\ c[p.key] # NoEntry
         THEN [r |-> p, c |-> [c EXCEPT ![p.key].v = m]]
    ELSE [r |-> p, c |-> c]

SeqMin(s) == CHOOSE x \in {s[i] : i \in DOMAIN s} : \A i \in DOMAIN s : x <= s[i]

\* dnsutils.GetMinimalTTL: the minimal TTL of the records, 0 without records
GetMinimalTTL(m) ==
    IF Len(m.Answer) = 0 THEN 0
    ELSE SeqMin([i \in DOMAIN m.Answer |-> m.Answer[i].Ttl])

\* dnsutils.SetTTL: every record gets the given TTL
SetTTL(m, ttl) ==
    [m EXCEPT !.Answer = [i \in DOMAIN m.Answer |-> [m.Answer[i] EXCEPT !.Ttl = ttl]]]

\* utils.GetMsgKey(q, salt): the message packed with its ID replaced by salt
GetMsgKey(q, salt) ==
    IF q.Question.Name = ""
    THEN [key |-> << >>, err |-> "pack error"]
    ELSE [key |-> <<salt, q.Question.Name, q.Question.Qtype, q.Question.Qclass>>,
          err |-> "nil"]

\* the keys the queries can have
Keys ==
    {GetMsgKey([Id |-> id, Question |-> qq], salt).key :
        id \in {0}, salt \in {0} \cup UNION {QueryIDs(t) : t \in Tasks},
        qq \in Questions \ {QMalformed}}

\* ------------------------------------------------------- cache.DnsCache
\* Get handing out the message object the entry holds
Get_Shared(c, key, now, fault) ==
    IF fault
    THEN [v |-> Nil, ttl |-> 0, ok |-> FALSE, err |-> "backend error", c |-> c]
    ELSE IF c[key] = NoEntry
    THEN [v |-> Nil, ttl |-> 0, ok |-> FALSE, err |-> "nil", c |-> c]
    ELSE IF c[key].expirationTime <= now
    THEN [v |-> Nil, ttl |-> 0, ok |-> FALSE, err |-> "nil",
          c |-> [c EXCEPT ![key] = NoEntry]]
    ELSE [v |-> Shared(key), ttl |-> c[key].expirationTime - now,
          ok |-> TRUE, err |-> "nil", c |-> c]

\* Get serving an entry whatever its expiration time
Get_NoExpiryCheck(c, key, now, fault) ==
    IF fault
    THEN [v |-> Nil, ttl |-> 0, ok |-> FALSE, err |-> "backend error", c |-> c]
    ELSE IF c[key] = NoEntry
    THEN [v |-> Nil, ttl |-> 0, ok |-> FALSE, err |-> "nil", c |-> c]
    ELSE [v |-> Own(c[key].v), ttl |-> c[key].expirationTime - now,
          ok |-> TRUE, err |-> "nil", c |-> c]

\* Get: a backend failure is an error; an absent or expired entry is a miss
\* (the expired entry is removed); a hit returns a copy of the stored message
\* and the remaining time to live
Get(c, key, now, fault) ==
    IF fault
    THEN [v |-> Nil, ttl |-> 0, ok |-> FALSE, err |-> "backend error", c |-> c]
    ELSE IF c[key] = NoEntry
    THEN [v |-> Nil, ttl |-> 0, ok |-> FALSE, err |-> "nil", c |-> c]
    ELSE IF c[key].expirationTime <= now
    THEN [v |-> Nil, ttl |-> 0, ok |-> FALSE, err |-> "nil",
          c |-> [c EXCEPT ![key] = NoEntry]]
    ELSE [v |-> Own(c[key].v), ttl |-> c[key].expirationTime - now,
          ok |-> TRUE, err |-> "nil", c |-> c]

\* Store: upsert of a copy of the message; ttl <= 0 is a no-op
Store(c, key, v, ttl, now, fault) ==
    IF fault THEN [err |-> "backend error", c |-> c]
    ELSE IF ttl <= 0 THEN [err |-> "nil", c |-> c]
    ELSE [err |-> "nil",
          c |-> [c EXCEPT ![key] = [v |-> v, expirationTime |-> now + ttl]]]

\* --------------------------------------------------------- handler.Context
NewContext(q) == [q |-> q, r |-> Nil, status |-> "Unset", deferrable |-> << >>]

SetResponse(qCtx, r, status) == [qCtx EXCEPT !.r = r, !.status = status]

DeferExec(qCtx, e) == [qCtx EXCEPT !.deferrable = Append(@, e)]

\* ------------------------------------------------------------ cachePlugin
NoCall == [called |-> FALSE]

\* searchAndReply taking a Get error for a reason to stop the chain
searchAndReply_GetErrStops(c, qCtx, now, getFault) ==
    LET q == qCtx.q
        k == GetMsgKey(q, 0)
    IN  IF k.err # "nil"
        THEN [key |-> << >>, cacheHit |-> FALSE, c |-> c, qCtx |-> qCtx,
              warn |-> "key", ttl |-> 0]
        ELSE LET g == Get(c, k.key, now, getFault) IN
             IF g.err # "nil"
             THEN [key |-> k.key, cacheHit |-> TRUE, c |-> g.c,
                   qCtx |-> SetResponse(qCtx, Nil, "ServerFailed"),
                   warn |-> "get", ttl |-> 0]
             ELSE IF g.v # Nil
             THEN LET a1 == Assign(g.v, g.c, [Deref(g.v, g.c) EXCEPT !.Id = q.Id])
                      a2 == Assign(a1.r, a1.c,
                                   SetTTL(Deref(a1.r, a1.c), g.ttl \div Second))
                  IN  [key |-> k.key, cacheHit |-> TRUE, c |-> a2.c,
                       qCtx |-> SetResponse(qCtx, a2.r, "Responded"),
                       warn |-> "none", ttl |-> g.ttl]
             ELSE [key |-> k.key, cacheHit |-> FALSE, c |-> g.c, qCtx |-> qCtx,
                   warn |-> "none", ttl |-> 0]

\* searchAndReply leaving the ID of the cached response in the reply
searchAndReply_KeepsId(c, qCtx, now, getFault) ==
    LET q == qCtx.q
        k == GetMsgKey(q, 0)
    IN  IF k.err # "nil"
        THEN [key |-> << >>, cacheHit |-> FALSE, c |-> c, qCtx |-> qCtx,
              warn |-> "key", ttl |-> 0]
        ELSE LET g == Get(c, k.key, now, getFault) IN
             IF g.err # "nil"
             THEN [key |-> k.key, cacheHit |-> FALSE, c |-> g.c, qCtx |-> qCtx,
                   warn |-> "get", ttl |-> 0]
             ELSE IF g.v # Nil
             THEN LET a2 == Assign(g.v, g.c,
                                   SetTTL(Deref(g.v, g.c), g.ttl \div Second))
                  IN  [key |-> k.key, cacheHit |-> TRUE, c |-> a2.c,
                       qCtx |-> SetResponse(qCtx, a2.r, "Responded"),
                       warn |-> "none", ttl |-> g.ttl]
             ELSE [key |-> k.key, cacheHit |-> FALSE, c |-> g.c, qCtx |-> qCtx,
                   warn |-> "none", ttl |-> 0]

\* searchAndReply leaving the stored TTLs in the reply
searchAndReply_NoSetTTL(c, qCtx, now, getFault) ==
    LET q == qCtx.q
        k == GetMsgKey(q, 0)
    IN  IF k.err # "nil"
        THEN [key |-> << >>, cacheHit |-> FALSE, c |-> c, qCtx |-> qCtx,
              warn |-> "key", ttl |-> 0]
        ELSE LET g == Get(c, k.key, now, getFault) IN
             IF g.err # "nil"
             THEN [key |-> k.key, cacheHit |-> FALSE, c |-> g.c, qCtx |-> qCtx,
                   warn |-> "get", ttl |-> 0]
             ELSE IF g.v # Nil
             THEN LET a1 == Assign(g.v, g.c, [Deref(g.v, g.c) EXCEPT !.Id = q.Id])
                  IN  [key |-> k.key, cacheHit |-> TRUE, c |-> a1.c,
                       qCtx |-> SetResponse(qCtx, a1.r, "Responded"),
                       warn |-> "none", ttl |-> g.ttl]
             ELSE [key |-> k.key, cacheHit |-> FALSE, c |-> g.c, qCtx |-> qCtx,
                   warn |-> "none", ttl |-> 0]

\* searchAndReply asking for the key of the message with its own ID
searchAndReply_KeyWithID(c, qCtx, now, getFault) ==
    LET q == qCtx.q
        k == GetMsgKey(q, q.Id)
    IN  IF k.err # "nil"
        THEN [key |-> << >>, cacheHit |-> FALSE, c |-> c, qCtx |-> qCtx,
              warn |-> "key", ttl |-> 0]
        ELSE LET g == Get(c, k.key, now, getFault) IN
             IF g.err # "nil"
             THEN [key |-> k.key, cacheHit |-> FALSE, c |-> g.c, qCtx |-> qCtx,
                   warn |-> "get", ttl |-> 0]
             ELSE IF g.v # Nil
             THEN LET a1 == Assign(g.v, g.c, [Deref(g.v, g.c) EXCEPT !.Id = q.Id])
                      a2 == Assign(a1.r, a1.c,
                                   SetTTL(Deref(a1.r, a1.c), g.ttl \div Second))
                  IN  [key |-> k.key, cacheHit |-> TRUE, c |-> a2.c,
                       qCtx |-> SetResponse(qCtx, a2.r, "Responded"),
                       warn |-> "none", ttl |-> g.ttl]
             ELSE [key |-> k.key, cacheHit |-> FALSE, c |-> g.c, qCtx |-> qCtx,
                   warn |-> "none", ttl |-> 0]

searchAndReply(c, qCtx, now, getFault) ==
    LET q == qCtx.q
        k == GetMsgKey(q, 0)
    IN  IF k.err # "nil"
        THEN [key |-> << >>, cacheHit |-> FALSE, c |-> c, qCtx |-> qCtx,
              warn |-> "key", ttl |-> 0]
        ELSE LET g == Get(c, k.key, now, getFault) IN
             IF g.err # "nil"
             THEN [key |-> k.key, cacheHit |-> FALSE, c |-> g.c, qCtx |-> qCtx,
                   warn |-> "get", ttl |-> 0]
             ELSE IF g.v # Nil
             THEN LET a1 == Assign(g.v, g.c, [Deref(g.v, g.c) EXCEPT !.Id = q.Id])
                      \* uint32(ttl/time.Second): the quotient is at most the
                      \* stored TTL, itself a uint32, so the conversion is exact
                      a2 == Assign(a1.r, a1.c,
                                   SetTTL(Deref(a1.r, a1.c), g.ttl \div Second))
                  IN  [key |-> k.key, cacheHit |-> TRUE, c |-> a2.c,
                       qCtx |-> SetResponse(qCtx, a2.r, "Responded"),
                       warn |-> "none", ttl |-> g.ttl]
             ELSE [key |-> k.key, cacheHit |-> FALSE, c |-> g.c, qCtx |-> qCtx,
                   warn |-> "none", ttl |-> 0]

newDeferStore(key) == [type |-> "deferCacheStore", key |-> key]

\* ExecES registering the store before it looks at the outcome of the search
ExecES_DefersOnHit(c, qCtx, now, getFault) ==
    LET s == searchAndReply(c, qCtx, now, getFault)
        d == IF Len(s.key) # 0 THEN DeferExec(s.qCtx, newDeferStore(s.key))
             ELSE s.qCtx
    IN  [earlyStop |-> s.cacheHit, err |-> "nil", c |-> s.c, qCtx |-> d, s |-> s]

\* ExecES with the test of the key inverted
ExecES_KeyTestInverted(c, qCtx, now, getFault) ==
    LET s == searchAndReply(c, qCtx, now, getFault) IN
    IF s.cacheHit
    THEN [earlyStop |-> TRUE, err |-> "nil", c |-> s.c, qCtx |-> s.qCtx, s |-> s]
    ELSE [earlyStop |-> FALSE, err |-> "nil", c |-> s.c,
          qCtx |-> IF Len(s.key) = 0
                   THEN DeferExec(s.qCtx, newDeferStore(s.key))
                   ELSE s.qCtx,
          s |-> s]

ExecES(c, qCtx, now, getFault) ==
    LET s == searchAndReply(c, qCtx, now, getFault) IN
    IF s.cacheHit
    THEN [earlyStop |-> TRUE, err |-> "nil", c |-> s.c, qCtx |-> s.qCtx, s |-> s]
    ELSE [earlyStop |-> FALSE, err |-> "nil", c |-> s.c,
          qCtx |-> IF Len(s.key) # 0
                   THEN DeferExec(s.qCtx, newDeferStore(s.key))
                   ELSE s.qCtx,
          s |-> s]

\* exec without the check of the truncation flag
exec_NoTruncatedCheck(d, c, qCtx, now, storeFault) ==
    LET r == Deref(qCtx.r, c) IN
    IF qCtx.r # Nil /\ r.Rcode = RcodeSuccess /\ Len(r.Answer) # 0
    THEN LET ttl0 == GetMinimalTTL(r)
             ttl == IF ttl0 > maxTTL THEN maxTTL ELSE ttl0
             st == Store(c, d.key, r, ttl * Second, now, storeFault)
         IN  [err |-> st.err, c |-> st.c,
              call |-> [called |-> TRUE, key |-> d.key, v |-> r,
                        ttl |-> ttl * Second]]
    ELSE [err |-> "nil", c |-> c, call |-> NoCall]

\* exec without the cap of the TTL
exec_NoCap(d, c, qCtx, now, storeFault) ==
    LET r == Deref(qCtx.r, c) IN
    IF qCtx.r # Nil /\ r.Rcode = RcodeSuccess /\ r.Truncated = FALSE
       /\ Len(r.Answer) # 0
    THEN LET ttl == GetMinimalTTL(r)
             st == Store(c, d.key, r, ttl * Second, now, storeFault)
         IN  [err |-> st.err, c |-> st.c,
              call |-> [called |-> TRUE, key |-> d.key, v |-> r,
                        ttl |-> ttl * Second]]
    ELSE [err |-> "nil", c |-> c, call |-> NoCall]

\* deferCacheStore.exec
exec(d, c, qCtx, now, storeFault) ==
    LET r == Deref(qCtx.r, c) IN
    IF qCtx.r # Nil /\ r.Rcode = RcodeSuccess /\ r.Truncated = FALSE
       /\ Len(r.Answer) # 0
    THEN LET ttl0 == GetMinimalTTL(r)
             ttl == IF ttl0 > maxTTL THEN maxTTL ELSE ttl0
             st == Store(c, d.key, r, ttl * Second, now, storeFault)
         IN  [err |-> st.err, c |-> st.c,
              call |-> [called |-> TRUE, key |-> d.key, v |-> r,
                        ttl |-> ttl * Second]]
    ELSE [err |-> "nil", c |-> c, call |-> NoCall]

\* Exec handing the error of exec to its caller
Exec_ReturnsErr(d, c, qCtx, now, storeFault) ==
    LET e == exec(d, c, qCtx, now, storeFault) IN
    [err |-> e.err, c |-> e.c, call |-> e.call,
     warn |-> IF e.err # "nil" THEN "store" ELSE "none"]

\* deferCacheStore.Exec
Exec(d, c, qCtx, now, storeFault) ==
    LET e == exec(d, c, qCtx, now, storeFault) IN
    [err |-> "nil", c |-> e.c, call |-> e.call,
     warn |-> IF e.err # "nil" THEN "store" ELSE "none"]

\* Connect going on to the next plugins after a hit
ConnectSearch_NoReturnOnHit(c, qCtx, now, getFault) ==
    LET s == searchAndReply(c, qCtx, now, getFault) IN
    [returned |-> FALSE, err |-> "nil", key |-> s.key, c |-> s.c,
     qCtx |-> s.qCtx, s |-> s]

\* cachePlugin.Connect up to the call of pipeCtx.ExecNextPlugin
ConnectSearch(c, qCtx, now, getFault) ==
    LET s == searchAndReply(c, qCtx, now, getFault) IN
    [returned |-> s.cacheHit, err |-> "nil", key |-> s.key, c |-> s.c,
     qCtx |-> s.qCtx, s |-> s]

\* Connect going on to the store after an error of the next plugins
ConnectResume_StoresOnError(key, nextErr, c, qCtx, now, storeFault) ==
    IF Len(key) # 0
    THEN LET e == Exec(newDeferStore(key), c, qCtx, now, storeFault)
         IN  [err |-> nextErr, c |-> e.c, call |-> e.call, warn |-> e.warn,
              exec |-> e.err]
    ELSE [err |-> nextErr, c |-> c, call |-> NoCall, warn |-> "none", exec |-> "-"]

\* cachePlugin.Connect from the return of pipeCtx.ExecNextPlugin
ConnectResume(key, nextErr, c, qCtx, now, storeFault) ==
    IF nextErr # "nil"
    THEN [err |-> nextErr, c |-> c, call |-> NoCall, warn |-> "none", exec |-> "-"]
    ELSE IF Len(key) # 0
    THEN LET e == Exec(newDeferStore(key), c, qCtx, now, storeFault)
         IN  [err |-> "nil", c |-> e.c, call |-> e.call, warn |-> e.warn,
              exec |-> e.err]
    ELSE [err |-> "nil", c |-> c, call |-> NoCall, warn |-> "none", exec |-> "-"]

\* --------------------------------------------- the rest of the chain
\* the responses the plugins after the cache may produce for a query
Answer(q, ttls) ==
    [i \in DOMAIN ttls |-> [Ttl |-> ttls[i], Rdata |-> <<q.Question.Qtype, i>>]]

Reply(q, rcode, tc, ttls) ==
    [Id |-> q.Id, Question |-> q.Question, Rcode |-> rcode, Truncated |-> tc,
     Answer |-> Answer(q, ttls)]

UpstreamShapes ==
    {[rcode |-> RcodeSuccess, tc |-> FALSE, ttls |-> <<2, 1>>],
     [rcode |-> RcodeSuccess, tc |-> FALSE, ttls |-> <<604801>>],
     [rcode |-> RcodeSuccess, tc |-> FALSE, ttls |-> << >>],
     [rcode |-> RcodeSuccess, tc |-> TRUE, ttls |-> <<1>>],
     [rcode |-> 2, tc |-> FALSE, ttls |-> <<1>>]}

\* what the remaining plugins do with a query: set a response (or none)
\* and a status, and return an error or not
ChainOutcomes ==
    {[set |-> TRUE, shape |-> sh, status |-> "Responded", err |-> "nil"] :
        sh \in UpstreamShapes}
    \cup
    {[set |-> TRUE, shape |-> [rcode |-> RcodeSuccess, tc |-> FALSE, ttls |-> <<2, 1>>],
      status |-> "Responded", err |-> "chain error"],
     [set |-> FALSE, status |-> "Unset", err |-> "nil"],
     [set |-> FALSE, status |-> "ServerFailed", err |-> "nil"],
     [set |-> FALSE, status |-> "Unset", err |-> "chain error"]}

NextPlugins(qCtx, o) ==
    [qCtx |-> IF o.set
              THEN SetResponse(qCtx,
                               Own(Reply(qCtx.q, o.shape.rcode, o.shape.tc, o.shape.ttls)),
                               o.status)
              ELSE IF o.status # "Unset"
              THEN SetResponse(qCtx, Nil, o.status)
              ELSE qCtx,
     err |-> o.err]

\* ------------------------------------------------ deferred actions
\* Context.ExecDefer: the deferred actions run in attachment order, each on
\* the context as the previous one left it
RECURSIVE ExecDefer(_, _, _, _, _)
ExecDefer(ds, c, qCtx, now, storeFault) ==
    IF ds = << >>
    THEN [err |-> "nil", c |-> c, call |-> NoCall, stores |-> 0, warn |-> "none",
          ran |-> 0]
    ELSE LET e == Exec(Head(ds), c, qCtx, now, storeFault)
             rest == ExecDefer(Tail(ds), e.c, qCtx, now, storeFault)
         IN  [err |-> IF e.err # "nil" THEN e.err ELSE rest.err,
              c |-> rest.c,
              call |-> IF rest.call # NoCall THEN rest.call ELSE e.call,
              stores |-> rest.stores + (IF e.call # NoCall THEN 1 ELSE 0),
              warn |-> IF e.warn # "none" THEN e.warn ELSE rest.warn,
              ran |-> rest.ran + 1]

\* the dispatcher runs the deferred actions once the chain has completed or
\* stopped early; an error of the chain ends the query without them
RunsDeferred(chainErr) == chainErr \in {"-", "nil"}

\* ------------------------------------------------------------------ state
VARIABLES
    cache,      \* the DnsCache shared by all queries: key -> entry
    now,        \* the clock, in ticks
    ticks,      \* how many times the clock has advanced
    pc,         \* per task: where its query is in the pipeline
    ctx,        \* per task: the handler.Context of its query
    key,        \* per task: Connect's local variable key
    ret,        \* per task: what the handlers returned
    obs,        \* per task: what was observed of the current query (expired:
                \* the lookup just made met an entry whose TTL had elapsed)
    lastAdv,    \* per key: TTL advertised by the last hit since the last store
    eq,         \* one query run in both modes, side by side (SpecEq)
    wr,         \* a plugin, its PluginWrapper and the last dispatch (SpecW)
    hs          \* a hosts table, its matcher and the last lookup (SpecH)

vars == <<cache, now, ticks, pc, ctx, key, ret, obs, lastAdv, eq, wr, hs>>

NoQuery == [Id |-> 0, Question |-> QMalformed]
NoRet == [earlyStop |-> FALSE, err |-> "-", exec |-> "-", chain |-> "-"]
NoRef == [set |-> FALSE]
NoObs == [mode |-> "-", faults |-> {}, hit |-> FALSE, call |-> NoCall, stores |-> 0, nexts |-> 0,
          ref |-> NoRef, expired |-> FALSE]

Faults(f, w) == IF w = "none" THEN f ELSE f \cup {w}

\* the outcome of the query when the remaining chain runs on a context the
\* cache plugin never touched
Reference(q, o) ==
    LET n == NextPlugins(NewContext(q), o) IN
    [set |-> TRUE, r |-> n.qCtx.r, status |-> n.qCtx.status, err |-> n.err]

Init ==
    /\ cache = [k \in Keys |-> NoEntry]
    /\ now = 0
    /\ ticks = 0
    /\ pc = [t \in Tasks |-> "idle"]
    /\ ctx = [t \in Tasks |-> NewContext(NoQuery)]
    /\ key = [t \in Tasks |-> << >>]
    /\ ret = [t \in Tasks |-> NoRet]
    /\ obs = [t \in Tasks |-> NoObs]
    /\ lastAdv = [k \in Keys |-> -1]
    /\ eq = [pc |-> "off"]
    /\ wr = [pc |-> "off"]
    /\ hs = [pc |-> "off"]

\* the cache still holds, under the key of this query, an entry whose TTL has
\* elapsed
HoldsExpired(c, qCtx, t) ==
    LET k == GetMsgKey(qCtx.q, 0) IN
    /\ k.err = "nil"
    /\ c[k.key] # NoEntry
    /\ c[k.key].expirationTime <= t

\* the TTL the reply of a hit advertises
Advertised(qCtx, c) ==
    LET m == Deref(qCtx.r, c) IN
    IF m = NilMsg \/ m.Answer = << >> THEN -1 ELSE m.Answer[1].Ttl

\* nothing is remembered of an entry that is gone
Forget(adv, c) == [k \in Keys |-> IF c[k] = NoEntry THEN -1 ELSE adv[k]]

HitAdv(s, adv) ==
    IF s.cacheHit /\ s.key \in Keys
    THEN [adv EXCEPT ![s.key] = Advertised(s.qCtx, s.c)]
    ELSE Forget(adv, s.c)

\* a Store that changes the entry of its key starts a new entry
StoreAdv(call, c, c2, adv) ==
    IF call # NoCall /\ call.key \in Keys /\ c2[call.key] # c[call.key]
    THEN [adv EXCEPT ![call.key] = -1]
    ELSE adv

\* a query arrives: the server builds its context and the chain reaches the
\* cache plugin, used as an executor or as a connector
NewQuery(t) ==
    /\ pc[t] = "idle"
    /\ \E id \in QueryIDs(t), qq \in Questions, mode \in {"ExecES", "Connect"} :
          /\ ctx' = [ctx EXCEPT ![t] = NewContext([Id |-> id, Question |-> qq])]
          /\ pc' = [pc EXCEPT ![t] = mode]
    /\ key' = [key EXCEPT ![t] = << >>]
    /\ ret' = [ret EXCEPT ![t] = NoRet]
    /\ obs' = [obs EXCEPT ![t] = [NoObs EXCEPT !.mode = pc'[t]]]
    /\ UNCHANGED <<cache, now, ticks, lastAdv, eq, wr, hs>>

\* executor mode: cachePlugin.ExecES
DoExecES(t) ==
    /\ pc[t] = "ExecES"
    /\ \E getFault \in BOOLEAN :
          LET x == ExecES(cache, ctx[t], now, getFault) IN
          /\ cache' = x.c
          /\ ctx' = [ctx EXCEPT ![t] = x.qCtx]
          /\ ret' = [ret EXCEPT ![t].earlyStop = x.earlyStop, ![t].err = x.err]
          /\ obs' = [obs EXCEPT ![t].faults = Faults(@, x.s.warn),
                                ![t].hit = x.s.cacheHit,
                                ![t].expired = HoldsExpired(cache, ctx[t], now)]
          /\ lastAdv' = HitAdv(x.s, lastAdv)
          /\ pc' = [pc EXCEPT ![t] = IF x.err # "nil" THEN "done"
                                     ELSE IF x.earlyStop THEN "defer"
                                     ELSE "chain"]
    /\ UNCHANGED <<now, ticks, key, eq, wr, hs>>

\* executor mode: the plugins after the cache run
RestOfChain(t) ==
    /\ pc[t] = "chain"
    /\ \E o \in ChainOutcomes :
          LET n == NextPlugins(ctx[t], o) IN
          /\ ctx' = [ctx EXCEPT ![t] = n.qCtx]
          /\ ret' = [ret EXCEPT ![t].chain = n.err]
          /\ obs' = [obs EXCEPT ![t].nexts = @ + 1,
                                ![t].ref = Reference(ctx[t].q, o),
                                ![t].expired = FALSE]
          /\ pc' = [pc EXCEPT ![t] = IF RunsDeferred(n.err) THEN "defer" ELSE "done"]
    /\ UNCHANGED <<cache, now, ticks, key, lastAdv, eq, wr, hs>>

\* executor mode: the chain completed or stopped early, the deferred actions run
DoExecDefer(t) ==
    /\ pc[t] = "defer"
    /\ \E storeFault \in BOOLEAN :
          LET d == ExecDefer(ctx[t].deferrable, cache, ctx[t], now, storeFault) IN
          /\ cache' = d.c
          /\ ret' = [ret EXCEPT ![t].exec = IF d.ran = 0 THEN "-" ELSE d.err]
          /\ obs' = [obs EXCEPT ![t].faults = Faults(@, d.warn),
                                ![t].call = d.call,
                                ![t].stores = @ + d.stores]
          /\ lastAdv' = StoreAdv(d.call, cache, d.c, lastAdv)
    /\ pc' = [pc EXCEPT ![t] = "done"]
    /\ UNCHANGED <<now, ticks, ctx, key, eq, wr, hs>>

\* connector mode: cachePlugin.Connect until it calls ExecNextPlugin
DoConnect(t) ==
    /\ pc[t] = "Connect"
    /\ \E getFault \in BOOLEAN :
          LET x == ConnectSearch(cache, ctx[t], now, getFault) IN
          /\ cache' = x.c
          /\ ctx' = [ctx EXCEPT ![t] = x.qCtx]
          /\ key' = [key EXCEPT ![t] = x.key]
          /\ ret' = [ret EXCEPT ![t].err = IF x.returned THEN x.err ELSE "-"]
          /\ obs' = [obs EXCEPT ![t].faults = Faults(@, x.s.warn),
                                ![t].hit = x.s.cacheHit,
                                ![t].expired = HoldsExpired(cache, ctx[t], now)]
          /\ lastAdv' = HitAdv(x.s, lastAdv)
          /\ pc' = [pc EXCEPT ![t] = IF x.returned THEN "done" ELSE "next"]
    /\ UNCHANGED <<now, ticks, eq, wr, hs>>

\* connector mode: pipeCtx.ExecNextPlugin runs the plugins after the cache
ExecNextPlugin(t) ==
    /\ pc[t] = "next"
    /\ \E o \in ChainOutcomes :
          LET n == NextPlugins(ctx[t], o) IN
          /\ ctx' = [ctx EXCEPT ![t] = n.qCtx]
          /\ ret' = [ret EXCEPT ![t].chain = n.err]
          /\ obs' = [obs EXCEPT ![t].nexts = @ + 1,
                                ![t].ref = Reference(ctx[t].q, o),
                                ![t].expired = FALSE]
    /\ pc' = [pc EXCEPT ![t] = "resume"]
    /\ UNCHANGED <<cache, now, ticks, key, lastAdv, eq, wr, hs>>

\* connector mode: cachePlugin.Connect after ExecNextPlugin returned
DoConnectResume(t) ==
    /\ pc[t] = "resume"
    /\ \E storeFault \in BOOLEAN :
          LET x == ConnectResume(key[t], ret[t].chain, cache, ctx[t], now, storeFault) IN
          /\ cache' = x.c
          /\ ret' = [ret EXCEPT ![t].err = x.err, ![t].exec = x.exec]
          /\ obs' = [obs EXCEPT ![t].faults = Faults(@, x.warn),
                                ![t].call = x.call,
                                ![t].stores = @ + (IF x.call # NoCall THEN 1 ELSE 0)]
          /\ lastAdv' = StoreAdv(x.call, cache, x.c, lastAdv)
    /\ pc' = [pc EXCEPT ![t] = "done"]
    /\ UNCHANGED <<now, ticks, ctx, key, eq, wr, hs>>

\* the response is sent and the context is discarded
Finish(t) ==
    /\ pc[t] = "done"
    /\ pc' = [pc EXCEPT ![t] = "idle"]
    /\ ctx' = [ctx EXCEPT ![t] = NewContext(NoQuery)]
    /\ key' = [key EXCEPT ![t] = << >>]
    /\ ret' = [ret EXCEPT ![t] = NoRet]
    /\ obs' = [obs EXCEPT ![t] = NoObs]
    /\ UNCHANGED <<cache, now, ticks, lastAdv, eq, wr, hs>>

\* time passes: a tick, or a week
Tick ==
    /\ ticks < MaxTicks
    /\ \E d \in {1, maxTTL * Second} : now' = now + d
    /\ ticks' = ticks + 1
    /\ UNCHANGED <<cache, pc, ctx, key, ret, obs, lastAdv, eq, wr, hs>>

\* the memory cache's cleaner removes the entries whose TTL has elapsed
Sweep ==
    /\ \E k \in Keys : cache[k] # NoEntry /\ cache[k].expirationTime <= now
    /\ cache' = [k \in Keys |->
                    IF cache[k] # NoEntry /\ cache[k].expirationTime <= now
                    THEN NoEntry ELSE cache[k]]
    /\ lastAdv' = Forget(lastAdv, cache')
    /\ UNCHANGED <<now, ticks, pc, ctx, key, ret, obs, eq, wr, hs>>

\* a full shard evicts an entry
Evict ==
    /\ \E k \in Keys :
          /\ cache[k] # NoEntry
          /\ cache' = [cache EXCEPT ![k] = NoEntry]
    /\ lastAdv' = Forget(lastAdv, cache')
    /\ UNCHANGED <<now, ticks, pc, ctx, key, ret, obs, eq, wr, hs>>

Next ==
    \/ \E t \in Tasks : NewQuery(t)
    \/ \E t \in Tasks : DoExecES(t)
    \/ \E t \in Tasks : RestOfChain(t)
    \/ \E t \in Tasks : DoExecDefer(t)
    \/ \E t \in Tasks : DoConnect(t)
    \/ \E t \in Tasks : ExecNextPlugin(t)
    \/ \E t \in Tasks : DoConnectResume(t)
    \/ \E t \in Tasks : Finish(t)
    \/ Tick
    \/ Sweep
    \/ Evict

Spec == Init /\ [][Next]_vars

\* ----------------------------------------------------------------- claims
Storable(m) ==
    /\ m # NilMsg
    /\ m.Rcode = 0
    /\ m.Truncated = FALSE
    /\ Len(m.Answer) >= 1

Final(t) == Deref(ctx[t].r, cache)

\* the error the query ends with: the first error of the pipeline
QueryErr(t) ==
    IF obs[t].mode = "Connect" THEN ret[t].err
    ELSE IF ret[t].err \notin {"-", "nil"} THEN ret[t].err
    ELSE IF ret[t].chain \notin {"-", "nil"} THEN ret[t].chain
    ELSE IF ret[t].exec \notin {"-", "nil"} THEN ret[t].exec
    ELSE "nil"

\* C1: in either mode Store is only ever called with a response that is
\* present, has rcode success, is not truncated and has at least one answer; a
\* query whose final response is missing, truncated, non-success or without
\* answers ends without a Store, and the cache holds only storable responses
C1_OnlyStorableStored ==
    /\ \A t \in Tasks : obs[t].call # NoCall => Storable(obs[t].call.v)
    /\ \A t \in Tasks :
          pc[t] = "done" /\ ~Storable(Final(t)) => obs[t].stores = 0
    /\ \A k \in Keys : cache[k] # NoEntry => Storable(cache[k].v)

\* one query has stored its response while another one, whose chain produced
\* a truncated response, has finished without a Store
C1_Witness ==
    \E t, u \in Tasks :
        /\ pc[t] = "done" /\ obs[t].call # NoCall /\ obs[t].faults = {}
        /\ pc[u] = "done" /\ obs[u].nexts = 1 /\ obs[u].faults = {}
        /\ Final(u) # NilMsg /\ Final(u).Truncated /\ obs[u].stores = 0

\* C2: the TTL of every Store call is the minimal TTL of the stored response's
\* records, capped at 604800 seconds, and no entry outlives 604800 seconds
C2_StoredTTL ==
    /\ \A t \in Tasks :
          obs[t].call # NoCall =>
             LET m == obs[t].call.v IN
             \E i \in DOMAIN m.Answer :
                /\ \A j \in DOMAIN m.Answer : m.Answer[i].Ttl <= m.Answer[j].Ttl
                /\ obs[t].call.ttl
                     = (IF m.Answer[i].Ttl > 604800 THEN 604800 ELSE m.Answer[i].Ttl)
                       * Second
    /\ \A k \in Keys :
          cache[k] # NoEntry => cache[k].expirationTime - now <= 604800 * Second

\* a response whose records all carry more than a week has been stored for a week
C2_Witness ==
    \E t \in Tasks :
        /\ obs[t].call # NoCall
        /\ \A j \in DOMAIN obs[t].call.v.Answer : obs[t].call.v.Answer[j].Ttl > 604800
        /\ obs[t].call.ttl = 604800 * Second
        /\ cache[obs[t].call.key] # NoEntry

\* C3: whatever key derivation, Get and Store do, ExecES returns a nil error
\* and the store action's Exec returns nil
C3_NoCacheError ==
    \A t \in Tasks :
        /\ ret[t].exec \in {"-", "nil"}
        /\ obs[t].mode = "ExecES" => ret[t].err \in {"-", "nil"}
        /\ obs[t].mode = "ExecES" /\ pc[t] \in {"chain", "defer", "done"}
              => ret[t].err = "nil"
        /\ obs[t].stores > 0 => ret[t].exec = "nil"

\* an executor-mode query has met a Get error and a Store error and finished
C3_Witness ==
    \E t \in Tasks :
        /\ obs[t].mode = "ExecES" /\ pc[t] = "done"
        /\ obs[t].faults = {"get", "store"}
        /\ ret[t].err = "nil" /\ ret[t].exec = "nil"

\* C4: a query that met a cache fault ends as the remaining chain alone ends
\* it: the chain ran (once, no early stop), and response, status and error are
\* those of the chain run on a context the cache plugin never touched
C4_FaultAsNoCache ==
    \A t \in Tasks :
        pc[t] = "done" /\ obs[t].faults # {} =>
            /\ ret[t].earlyStop = FALSE
            /\ obs[t].nexts = 1
            /\ obs[t].ref # NoRef
            /\ ctx[t].r = obs[t].ref.r
            /\ ctx[t].status = obs[t].ref.status
            /\ QueryErr(t) = obs[t].ref.err

\* a connector-mode query met a Get error and a Store error and ended with
\* the chain's response
C4_Witness ==
    \E t \in Tasks :
        /\ pc[t] = "done" /\ obs[t].mode = "Connect"
        /\ obs[t].faults = {"get", "store"}
        /\ ctx[t].status = "Responded" /\ Storable(Final(t))

\* task t's query goes through the cache plugin's lookup in this step
LookupStep(t) == pc[t] \in {"ExecES", "Connect"} /\ pc'[t] # pc[t]

\* the live entry Get finds for task t's query, if any
QueryKey(t) == GetMsgKey(ctx[t].q, 0)

GetFinds(t) ==
    /\ QueryKey(t).err = "nil"
    /\ cache[QueryKey(t).key] # NoEntry
    /\ cache[QueryKey(t).key].expirationTime > now

Rdatas(m) == [i \in DOMAIN m.Answer |-> m.Answer[i].Rdata]

\* C5: when Get returns a response for the query's key, the context response
\* becomes the cached response with the ID of the query, the status becomes
\* Responded, and ExecES returns earlyStop = true (and no error)
C5_HitReply ==
    [][\A t \in Tasks :
          LookupStep(t) /\ GetFinds(t) /\ "get" \notin obs'[t].faults =>
             LET e == cache[QueryKey(t).key].v
                 m == Deref(ctx'[t].r, cache')
             IN  /\ ctx'[t].r # Nil /\ m # NilMsg
                 /\ m.Id = ctx[t].q.Id
                 /\ m.Question = e.Question
                 /\ m.Rcode = e.Rcode /\ m.Truncated = e.Truncated
                 /\ Rdatas(m) = Rdatas(e)
                 /\ ctx'[t].status = "Responded"
                 /\ obs[t].mode = "ExecES" =>
                       ret'[t].earlyStop = TRUE /\ ret'[t].err = "nil"]_vars

\* an executor-mode query was answered from an entry stored under another ID
C5_Witness ==
    \E t \in Tasks :
        /\ obs[t].mode = "ExecES" /\ obs[t].hit /\ ret[t].earlyStop
        /\ ctx[t].status = "Responded"
        /\ Final(t) # NilMsg /\ Final(t).Id = ctx[t].q.Id
        /\ QueryKey(t).err = "nil" /\ cache[QueryKey(t).key] # NoEntry
        /\ cache[QueryKey(t).key].v.Id # ctx[t].q.Id

\* the TTL a Store call of this response gives the entry, in seconds
StoredTTL(m) ==
    LET x == CHOOSE x \in {m.Answer[i].Ttl : i \in DOMAIN m.Answer} :
                \A j \in DOMAIN m.Answer : x <= m.Answer[j].Ttl
    IN  IF x > 604800 THEN 604800 ELSE x

\* C6: every record of a hit's reply advertises the whole seconds the entry
\* has left, which is at most the TTL it was stored with and at most what the
\* previous hit on the entry advertised
C6_RemainingTTL ==
    [][\A t \in Tasks :
          LookupStep(t) /\ obs'[t].hit =>
             LET k == QueryKey(t).key
                 m == Deref(ctx'[t].r, cache')
             IN  /\ cache[k] # NoEntry
                 /\ \A i \in DOMAIN m.Answer :
                       /\ m.Answer[i].Ttl = (cache[k].expirationTime - now) \div Second
                       /\ m.Answer[i].Ttl <= StoredTTL(cache[k].v)
                       /\ lastAdv[k] # -1 => m.Answer[i].Ttl <= lastAdv[k]]_vars

\* two replies served from one entry stored with one second: the earlier
\* advertises 1, the later, half a second on, 0
C6_Witness ==
    \E t, u \in Tasks :
        /\ obs[t].hit /\ obs[u].hit /\ now = 1
        /\ Final(t) # NilMsg /\ Final(u) # NilMsg
        /\ Final(t).Answer[1].Ttl = 1 /\ Final(u).Answer[1].Ttl = 0
        /\ QueryKey(t) = QueryKey(u)
        /\ cache[QueryKey(t).key] # NoEntry
        /\ StoredTTL(cache[QueryKey(t).key].v) = 1

\* C7: a miss under a valid key makes ExecES append one store action for that
\* key, return earlyStop = false and call no Store, none is called while the
\* rest of the chain runs, and the deferred action stores, once, the response
\* the chain left in the context, under that key
C7_DeferredStore ==
    [][\A t \in Tasks :
          /\ (pc[t] = "ExecES" /\ pc'[t] # "ExecES" /\ ~obs'[t].hit
                /\ ctx[t].q.Question # QMalformed) =>
                /\ ctx'[t].deferrable
                     = Append(ctx[t].deferrable,
                              [type |-> "deferCacheStore",
                               key |-> <<0, ctx[t].q.Question.Name,
                                         ctx[t].q.Question.Qtype,
                                         ctx[t].q.Question.Qclass>>])
                /\ ret'[t].earlyStop = FALSE
                /\ pc'[t] = "chain"
                /\ \A k \in Keys : cache'[k] \in {cache[k], NoEntry}
          /\ pc'[t] \in {"ExecES", "chain", "defer"} => obs'[t].stores = 0
          /\ (pc[t] = "defer" /\ pc'[t] = "done" /\ ctx[t].deferrable # << >>) =>
                IF Storable(Deref(ctx[t].r, cache))
                THEN /\ obs'[t].stores = 1
                     /\ obs'[t].call # NoCall
                     /\ obs'[t].call.v = Deref(ctx[t].r, cache)
                     /\ obs'[t].call.v = Deref(obs[t].ref.r, cache)
                     /\ obs'[t].call.key = ctx[t].deferrable[1].key
                     /\ "store" \notin obs'[t].faults /\ obs'[t].call.ttl > 0 =>
                           cache'[obs'[t].call.key]
                             = [v |-> Deref(ctx[t].r, cache),
                                expirationTime |-> now + obs'[t].call.ttl]
                ELSE obs'[t].stores = 0 /\ cache' = cache]_vars

\* an executor-mode query missed, the chain answered, and the deferred action
\* has stored that answer
C7_Witness ==
    \E t \in Tasks :
        /\ obs[t].mode = "ExecES" /\ pc[t] = "done" /\ ~obs[t].hit
        /\ obs[t].faults = {} /\ obs[t].nexts = 1 /\ obs[t].stores = 1
        /\ Len(ctx[t].deferrable) = 1
        /\ cache[QueryKey(t).key] # NoEntry
        /\ cache[QueryKey(t).key].v = Final(t)

\* C8: a lookup that meets no cache fault while the cache holds an unexpired
\* response to the same question, stored by a query of whatever ID, is a hit,
\* and the reply carries the stored answer records (their TTLs aside)
C8_KeyIgnoresID ==
    [][\A t \in Tasks :
          \A k \in Keys :
             (/\ LookupStep(t) /\ obs'[t].faults = {}
              /\ cache[k] # NoEntry /\ cache[k].expirationTime > now
              /\ cache[k].v.Question = ctx[t].q.Question) =>
                 /\ obs'[t].hit
                 /\ ctx'[t].status = "Responded"
                 /\ Deref(ctx'[t].r, cache') # NilMsg
                 /\ Rdatas(Deref(ctx'[t].r, cache')) = Rdatas(cache[k].v)]_vars

\* a query was answered from the entry a query with another ID had stored
C8_Witness ==
    \E t \in Tasks : \E k \in Keys :
        /\ obs[t].hit /\ pc[t] = "done"
        /\ cache[k] # NoEntry
        /\ cache[k].v.Question = ctx[t].q.Question
        /\ cache[k].v.Id # ctx[t].q.Id
        /\ Final(t) # NilMsg /\ Final(t).Id = ctx[t].q.Id
        /\ Rdatas(Final(t)) = Rdatas(cache[k].v)

C11_ExpiredIsMiss ==
    \A t \in Tasks :
        obs[t].expired =>
            /\ ~obs[t].hit
            /\ ret[t].earlyStop = FALSE
            /\ ctx[t].r = Nil /\ ctx[t].status = "Unset"
            /\ pc[t] \in {"chain", "next"}
            /\ obs[t].nexts = 0

\* a query arrived after the entry of its key had expired and before any sweep:
\* it missed, without a fault of the cache, and the plugins after the cache are
\* to run
C11_Witness ==
    \E t \in Tasks :
        /\ obs[t].expired /\ obs[t].faults = {} /\ ~obs[t].hit
        /\ pc[t] \in {"chain", "next"} /\ now >= maxTTL * Second

\* the entries a lookup may drop are those whose TTL has elapsed
OnlyExpiredDropped(c, c2, t) ==
    \A k \in Keys :
        \/ c2[k] = c[k]
        \/ c[k] # NoEntry /\ c[k].expirationTime <= t /\ c2[k] = NoEntry

\* C18: a query through Connect runs the plugins after the cache not at all on
\* a hit (Connect returns nil at once) and once on a miss; Store is called only
\* after they returned without error; when they return an error Connect
\* returns that error, calls no Store and leaves the cache as it is
C18_ConnectorChain ==
    [][\A t \in Tasks :
          obs'[t].mode = "Connect" =>
             /\ (pc[t] = "Connect" /\ pc'[t] # "Connect") =>
                   /\ OnlyExpiredDropped(cache, cache', now)
                   /\ obs'[t].nexts = 0 /\ obs'[t].stores = 0
                   /\ IF obs'[t].hit
                      THEN pc'[t] = "done" /\ ret'[t].err = "nil"
                      ELSE pc'[t] = "next"
             /\ pc'[t] \in {"resume", "done"} =>
                   obs'[t].nexts = (IF obs'[t].hit THEN 0 ELSE 1)
             /\ obs'[t].stores > 0 =>
                   /\ pc'[t] = "done" /\ obs'[t].stores = 1
                   /\ obs'[t].nexts = 1 /\ ret'[t].chain = "nil"
             /\ (pc[t] = "resume" /\ pc'[t] = "done" /\ ret[t].chain # "nil") =>
                   /\ ret'[t].err = ret[t].chain
                   /\ obs'[t].stores = 0 /\ obs'[t].call = NoCall
                   /\ cache' = cache]_vars

\* a query through Connect missed, the plugins after the cache left a
\* response fit for the cache and returned an error, and Connect has returned
\* that error without a Store
C18_Witness ==
    \E t \in Tasks :
        /\ obs[t].mode = "Connect" /\ pc[t] = "done" /\ ~obs[t].hit
        /\ obs[t].nexts = 1 /\ obs[t].stores = 0
        /\ ret[t].chain = "chain error" /\ ret[t].err = "chain error"
        /\ Storable(Final(t))
        /\ QueryKey(t).err = "nil"
        /\ cache[QueryKey(t).key] = NoEntry

\* C19: a hit registers no deferred store and calls no Store, in ExecES and in
\* Connect, and no step of a query that was answered from the cache changes
\* the cache: the entry and its expiration time stay as they are
C19_HitNeverWrites ==
    [][\A t \in Tasks :
          /\ (LookupStep(t) /\ obs'[t].hit) =>
                /\ cache' = cache
                /\ ctx'[t].deferrable = ctx[t].deferrable
          /\ obs'[t].hit =>
                /\ ctx'[t].deferrable = << >>
                /\ obs'[t].stores = 0 /\ obs'[t].call = NoCall
                /\ obs'[t].nexts = 0
          /\ (obs[t].hit /\ pc'[t] # pc[t]) => cache' = cache]_vars

\* one entry has answered a query through ExecES, whose deferred actions have
\* run, and a query through Connect, and is in the cache as it was stored
C19_Witness ==
    \E t, u \in Tasks :
        /\ obs[t].mode = "ExecES" /\ obs[t].hit /\ pc[t] = "done"
        /\ obs[u].mode = "Connect" /\ obs[u].hit /\ pc[u] = "done"
        /\ QueryKey(t) = QueryKey(u)
        /\ cache[QueryKey(t).key] # NoEntry
        /\ cache[QueryKey(t).key].expirationTime = now + 1
        /\ StoredTTL(cache[QueryKey(t).key].v) = 1

\* ------------------------------------------- both modes, side by side
\* One query, one behaviour of the remaining plugins and one behaviour of the
\* backend, run against two copies of the same cache: side E through ExecES,
\* the chain and the deferred actions, side C through Connect.
EmptyCache == [k \in Keys |-> NoEntry]

\* the caches a stored response of an earlier query leaves behind
EqCaches ==
    {EmptyCache}
    \cup
    {exec(newDeferStore(GetMsgKey([Id |-> id, Question |-> QA], 0).key), EmptyCache,
          SetResponse(NewContext([Id |-> id, Question |-> QA]),
                      Own(Reply([Id |-> id, Question |-> QA], sh.rcode, sh.tc, sh.ttls)),
                      "Responded"),
          0, FALSE).c :
        id \in UNION {QueryIDs(t) : t \in Tasks}, sh \in UpstreamShapes}

EqQueries ==
    {[Id |-> id, Question |-> qq] :
        id \in UNION {QueryIDs(t) : t \in Tasks}, qq \in Questions}

EqInit ==
    /\ cache = EmptyCache
    /\ now = 0
    /\ ticks = 0
    /\ pc = [t \in Tasks |-> "idle"]
    /\ ctx = [t \in Tasks |-> NewContext(NoQuery)]
    /\ key = [t \in Tasks |-> << >>]
    /\ ret = [t \in Tasks |-> NoRet]
    /\ obs = [t \in Tasks |-> NoObs]
    /\ lastAdv = [k \in Keys |-> -1]
    /\ \E c0 \in EqCaches, q \in EqQueries, t0 \in 0..Second :
          eq = [pc |-> "start", now |-> t0, hit |-> FALSE,
                E |-> [c |-> c0, qCtx |-> NewContext(q), earlyStop |-> FALSE,
                       chain |-> "-"],
                C |-> [c |-> c0, qCtx |-> NewContext(q), returned |-> FALSE,
                       key |-> << >>, chain |-> "-", err |-> "-"]]
    /\ wr = [pc |-> "off"]
    /\ hs = [pc |-> "off"]

main == <<cache, now, ticks, pc, ctx, key, ret, obs, lastAdv>>

\* the chain reaches the cache plugin: ExecES on side E, Connect on side C
EqLookup ==
    /\ eq.pc = "start"
    /\ \E getFault \in BOOLEAN :
          LET e == ExecES(eq.E.c, eq.E.qCtx, eq.now, getFault)
              c == ConnectSearch(eq.C.c, eq.C.qCtx, eq.now, getFault)
          IN  eq' = [eq EXCEPT
                       !.pc = "looked",
                       !.hit = e.s.cacheHit,
                       !.E = [@ EXCEPT !.c = e.c, !.qCtx = e.qCtx,
                                       !.earlyStop = e.earlyStop],
                       !.C = [@ EXCEPT !.c = c.c, !.qCtx = c.qCtx, !.key = c.key,
                                       !.returned = c.returned,
                                       !.err = IF c.returned THEN c.err ELSE "-"]]
    /\ UNCHANGED <<main, wr, hs>>

\* the remaining plugins run, taking their time, unless the cache plugin
\* stopped the chain (side E) or returned (side C)
EqChain ==
    /\ eq.pc = "looked"
    /\ \E o \in ChainOutcomes, d \in {0, 1, maxTTL * Second} :
          LET e == NextPlugins(eq.E.qCtx, o)
              c == NextPlugins(eq.C.qCtx, o)
          IN  eq' = [eq EXCEPT
                       !.pc = "chained",
                       !.now = @ + d,
                       !.E = IF eq.E.earlyStop THEN @
                             ELSE [@ EXCEPT !.qCtx = e.qCtx, !.chain = e.err],
                       !.C = IF eq.C.returned THEN @
                             ELSE [@ EXCEPT !.qCtx = c.qCtx, !.chain = c.err]]
    /\ UNCHANGED <<main, wr, hs>>

\* side E: the deferred actions run unless the chain failed; side C: Connect
\* resumes after ExecNextPlugin
EqFinish ==
    /\ eq.pc = "chained"
    /\ \E storeFault \in BOOLEAN :
          LET e == ExecDefer(eq.E.qCtx.deferrable, eq.E.c, eq.E.qCtx, eq.now,
                             storeFault)
              c == ConnectResume(eq.C.key, eq.C.chain, eq.C.c, eq.C.qCtx, eq.now,
                                 storeFault)
          IN  eq' = [eq EXCEPT
                       !.pc = "end",
                       !.E = IF RunsDeferred(eq.E.chain) THEN [@ EXCEPT !.c = e.c]
                             ELSE @,
                       !.C = IF eq.C.returned THEN @
                             ELSE [@ EXCEPT !.c = c.c, !.err = c.err]]
    /\ UNCHANGED <<main, wr, hs>>

EqNext == EqLookup \/ EqChain \/ EqFinish

SpecEq == EqInit /\ [][EqNext]_vars

PITESExecutable == 0
PITMatcher == 1
PITContextConnector == 2
PITService == 3

\* errors are values: nil, the error of a context, an error of a plugin's own
\* logic, the result of fmt.Errorf (the formatted parts in order) and the
\* result of NewPluginError
ErrNil == [kind |-> "nil"]
Canceled == [kind |-> "context", msg |-> "context canceled"]
DeadlineExceeded == [kind |-> "context", msg |-> "context deadline exceeded"]
ErrPlugin == [kind |-> "plugin", msg |-> "upstream failed"]

Errorf(parts) == [kind |-> "errorString", msg |-> parts]

NewPluginError(tag, err) == [kind |-> "PluginError", tag |-> tag, err |-> err]

\* the plugins: a tag, a type and the interfaces the plugin's type implements
Interfaces == {"Executable", "ESExecutable", "Matcher", "ContextConnector", "Service"}

Plugins ==
    {[tag |-> n[1], typ |-> n[2], impl |-> i] :
        n \in {<<"main_cache", "cache">>, <<"local_hosts", "hosts">>},
        i \in SUBSET Interfaces}

Tag(gp) == gp.tag
Type(gp) == gp.typ

NoPlugin == [nil |-> TRUE]

\* the type assertion gp.(I)
AssertType(gp, I) == IF I \in gp.impl THEN gp ELSE NoPlugin

NewPluginWrapper(gp) ==
    [p  |-> gp,
     e  |-> AssertType(gp, "Executable"),
     se |-> AssertType(gp, "ESExecutable"),
     m  |-> AssertType(gp, "Matcher"),
     cc |-> AssertType(gp, "ContextConnector"),
     s  |-> AssertType(gp, "Service")]

\* what the plugin does to the query context when one of its methods runs
Effects == {"none", "respond"}

Apply(qCtx, eff) ==
    IF eff = "respond"
    THEN SetResponse(qCtx, Own(Reply(qCtx.q, RcodeSuccess, FALSE, <<1>>)), "Responded")
    ELSE qCtx

\* what the methods of the plugin return, and do, once invoked
ExecESBehaviours ==
    [earlyStop : BOOLEAN, err : {ErrNil, ErrPlugin, Canceled}, eff : Effects]
MatchBehaviours ==
    [matched : BOOLEAN, err : {ErrNil, ErrPlugin, Canceled}, eff : Effects]
ConnectBehaviours == [err : {ErrNil, ErrPlugin, Canceled}, eff : Effects]
ShutdownBehaviours == [err : {ErrNil, ErrPlugin}]

\* ctx.Err()
CtxErrs == {ErrNil, Canceled, DeadlineExceeded}

NotA(w, what) ==
    Errorf(<<"plugin tag: ", Tag(w.p), ", type: ", Type(w.p), what>>)

\* PluginWrapper.Connect
PluginWrapper_Connect(w, ctxErr, qCtx, b) ==
    IF ctxErr # ErrNil
    THEN [err |-> ctxErr, qCtx |-> qCtx, invoked |-> << >>]
    ELSE IF w.cc = NoPlugin
    THEN [err |-> NotA(w, " is not a ContextConnector"), qCtx |-> qCtx,
          invoked |-> << >>]
    ELSE IF b.err # ErrNil
    THEN [err |-> NewPluginError(Tag(w.p), b.err), qCtx |-> Apply(qCtx, b.eff),
          invoked |-> <<"Connect">>]
    ELSE [err |-> ErrNil, qCtx |-> Apply(qCtx, b.eff), invoked |-> <<"Connect">>]

\* Match looking at the roles of the plugin before it looks at the context
PluginWrapper_Match_RoleFirst(w, ctxErr, qCtx, b) ==
    IF w.m = NoPlugin
    THEN [matched |-> FALSE, err |-> NotA(w, " is not a Matcher"), qCtx |-> qCtx,
          invoked |-> << >>]
    ELSE IF ctxErr # ErrNil
    THEN [matched |-> FALSE, err |-> ctxErr, qCtx |-> qCtx, invoked |-> << >>]
    ELSE IF b.err # ErrNil
    THEN [matched |-> FALSE, err |-> NewPluginError(Tag(w.p), b.err),
          qCtx |-> Apply(qCtx, b.eff), invoked |-> <<"Match">>]
    ELSE [matched |-> b.matched, err |-> ErrNil, qCtx |-> Apply(qCtx, b.eff),
          invoked |-> <<"Match">>]

\* PluginWrapper.Match
PluginWrapper_Match(w, ctxErr, qCtx, b) ==
    IF ctxErr # ErrNil
    THEN [matched |-> FALSE, err |-> ctxErr, qCtx |-> qCtx, invoked |-> << >>]
    ELSE IF w.m = NoPlugin
    THEN [matched |-> FALSE, err |-> NotA(w, " is not a Matcher"), qCtx |-> qCtx,
          invoked |-> << >>]
    ELSE IF b.err # ErrNil
    THEN [matched |-> FALSE, err |-> NewPluginError(Tag(w.p), b.err),
          qCtx |-> Apply(qCtx, b.eff), invoked |-> <<"Match">>]
    ELSE [matched |-> b.matched, err |-> ErrNil, qCtx |-> Apply(qCtx, b.eff),
          invoked |-> <<"Match">>]

\* ExecES returning the plugin's earlyStop along with the plugin's error
PluginWrapper_ExecES_KeepsEarlyStop(w, ctxErr, qCtx, b) ==
    IF ctxErr # ErrNil
    THEN [earlyStop |-> FALSE, err |-> ctxErr, qCtx |-> qCtx, invoked |-> << >>]
    ELSE LET r == IF w.se # NoPlugin
                  THEN [earlyStop |-> b.earlyStop, err |-> b.err,
                        qCtx |-> Apply(qCtx, b.eff), invoked |-> <<"ExecES">>]
                  ELSE IF w.e # NoPlugin
                  THEN [earlyStop |-> FALSE, err |-> b.err,
                        qCtx |-> Apply(qCtx, b.eff), invoked |-> <<"Exec">>]
                  ELSE [earlyStop |-> FALSE,
                        err |-> NotA(w, " is not an ESExecutable nor Executable"),
                        qCtx |-> qCtx, invoked |-> << >>]
         IN  IF r.err # ErrNil
             THEN [r EXCEPT !.err = NewPluginError(Tag(w.p), r.err)]
             ELSE r

\* PluginWrapper.ExecES
PluginWrapper_ExecES(w, ctxErr, qCtx, b) ==
    IF ctxErr # ErrNil
    THEN [earlyStop |-> FALSE, err |-> ctxErr, qCtx |-> qCtx, invoked |-> << >>]
    ELSE LET r == IF w.se # NoPlugin
                  THEN [earlyStop |-> b.earlyStop, err |-> b.err,
                        qCtx |-> Apply(qCtx, b.eff), invoked |-> <<"ExecES">>]
                  ELSE IF w.e # NoPlugin
                  THEN [earlyStop |-> FALSE, err |-> b.err,
                        qCtx |-> Apply(qCtx, b.eff), invoked |-> <<"Exec">>]
                  ELSE [earlyStop |-> FALSE,
                        err |-> NotA(w, " is not an ESExecutable nor Executable"),
                        qCtx |-> qCtx, invoked |-> << >>]
         IN  IF r.err # ErrNil
             THEN [r EXCEPT !.earlyStop = FALSE,
                            !.err = NewPluginError(Tag(w.p), r.err)]
             ELSE r

\* PluginWrapper.Shutdown
PluginWrapper_Shutdown(w, b) ==
    IF w.s = NoPlugin
    THEN [err |-> NotA(w, " is not a Service"), invoked |-> << >>]
    ELSE [err |-> b.err, invoked |-> <<"Shutdown">>]

\* Is taking only an ESExecutable for an executable
PluginWrapper_Is_OnlyES(w, t) ==
    CASE t = PITESExecutable -> [panic |-> FALSE, v |-> w.se # NoPlugin]
      [] t = PITMatcher -> [panic |-> FALSE, v |-> w.m # NoPlugin]
      [] t = PITContextConnector -> [panic |-> FALSE, v |-> w.cc # NoPlugin]
      [] t = PITService -> [panic |-> FALSE, v |-> w.s # NoPlugin]
      [] OTHER -> [panic |-> TRUE, v |-> FALSE]

\* Is with the cases of the matcher and of the connector exchanged
PluginWrapper_Is_Exchanged(w, t) ==
    CASE t = PITESExecutable -> [panic |-> FALSE, v |-> w.se # NoPlugin \/ w.e # NoPlugin]
      [] t = PITMatcher -> [panic |-> FALSE, v |-> w.cc # NoPlugin]
      [] t = PITContextConnector -> [panic |-> FALSE, v |-> w.m # NoPlugin]
      [] t = PITService -> [panic |-> FALSE, v |-> w.s # NoPlugin]
      [] OTHER -> [panic |-> TRUE, v |-> FALSE]

\* PluginWrapper.Is: the answer, or a panic for a value that is no
\* PluginInterfaceType
PluginWrapper_Is(w, t) ==
    CASE t = PITESExecutable -> [panic |-> FALSE, v |-> w.se # NoPlugin \/ w.e # NoPlugin]
      [] t = PITMatcher -> [panic |-> FALSE, v |-> w.m # NoPlugin]
      [] t = PITContextConnector -> [panic |-> FALSE, v |-> w.cc # NoPlugin]
      [] t = PITService -> [panic |-> FALSE, v |-> w.s # NoPlugin]
      [] OTHER -> [panic |-> TRUE, v |-> FALSE]

\* ------------------------------------------ a wrapper and its dispatches
\* the cache side of the model, at rest
MainIdle ==
    /\ cache = EmptyCache
    /\ now = 0
    /\ ticks = 0
    /\ pc = [t \in Tasks |-> "idle"]
    /\ ctx = [t \in Tasks |-> NewContext(NoQuery)]
    /\ key = [t \in Tasks |-> << >>]
    /\ ret = [t \in Tasks |-> NoRet]
    /\ obs = [t \in Tasks |-> NoObs]
    /\ lastAdv = [k \in Keys |-> -1]

NoDispatch == [method |-> "-"]

WQuery == [Id |-> 1, Question |-> QA]

\* a plugin is wrapped, and a query context is at hand
WInit ==
    /\ MainIdle
    /\ eq = [pc |-> "off"]
    /\ hs = [pc |-> "off"]
    /\ \E gp \in Plugins :
          wr = [pc |-> "ready", gp |-> gp, w |-> NewPluginWrapper(gp),
                qCtx |-> NewContext(WQuery), last |-> NoDispatch]

WExecES ==
    /\ wr.pc = "ready"
    /\ \E ctxErr \in CtxErrs, b \in ExecESBehaviours :
          LET r == PluginWrapper_ExecES(wr.w, ctxErr, wr.qCtx, b) IN
          wr' = [wr EXCEPT !.qCtx = r.qCtx,
                           !.last = [method |-> "ExecES", ctxErr |-> ctxErr,
                                     before |-> wr.qCtx, b |-> b, ret |-> r]]
    /\ UNCHANGED <<main, eq, hs>>

WMatch ==
    /\ wr.pc = "ready"
    /\ \E ctxErr \in CtxErrs, b \in MatchBehaviours :
          LET r == PluginWrapper_Match(wr.w, ctxErr, wr.qCtx, b) IN
          wr' = [wr EXCEPT !.qCtx = r.qCtx,
                           !.last = [method |-> "Match", ctxErr |-> ctxErr,
                                     before |-> wr.qCtx, b |-> b, ret |-> r]]
    /\ UNCHANGED <<main, eq, hs>>

WConnect ==
    /\ wr.pc = "ready"
    /\ \E ctxErr \in CtxErrs, b \in ConnectBehaviours :
          LET r == PluginWrapper_Connect(wr.w, ctxErr, wr.qCtx, b) IN
          wr' = [wr EXCEPT !.qCtx = r.qCtx,
                           !.last = [method |-> "Connect", ctxErr |-> ctxErr,
                                     before |-> wr.qCtx, b |-> b, ret |-> r]]
    /\ UNCHANGED <<main, eq, hs>>

WShutdown ==
    /\ wr.pc = "ready"
    /\ \E b \in ShutdownBehaviours :
          LET r == PluginWrapper_Shutdown(wr.w, b) IN
          wr' = [wr EXCEPT !.last = [method |-> "Shutdown", b |-> b, ret |-> r]]
    /\ UNCHANGED <<main, eq, hs>>

\* Is, asked about a PluginInterfaceType or about a value that is none
WIs ==
    /\ wr.pc = "ready"
    /\ \E t \in PITESExecutable .. PITService + 1 :
          LET r == PluginWrapper_Is(wr.w, t) IN
          wr' = [wr EXCEPT !.pc = IF r.panic THEN "panic" ELSE "ready",
                           !.last = [method |-> "Is", t |-> t, ret |-> r]]
    /\ UNCHANGED <<main, eq, hs>>

\* the next query: a new context
WNewContext ==
    /\ wr.pc = "ready"
    /\ wr.qCtx # NewContext(WQuery)
    /\ wr' = [wr EXCEPT !.qCtx = NewContext(WQuery), !.last = NoDispatch]
    /\ UNCHANGED <<main, eq, hs>>

WNext == WExecES \/ WMatch \/ WConnect \/ WShutdown \/ WIs \/ WNewContext

SpecW == WInit /\ [][WNext]_vars

\* ------------------------------------------------- claims on the wrapper
Dispatched(ms) == wr.pc # "off" /\ wr.last.method \in ms

\* the dispatch ran with a live context (Shutdown takes none)
LiveCtx == wr.last.method = "Shutdown" \/ wr.last.ctxErr = ErrNil

\* C12: ExecES, Match and Connect called with a context that is cancelled or
\* past its deadline invoke no method of the plugin, whatever it implements,
\* return the error of the context itself, and leave the query context as it
\* was
C12_CancelledNoInvoke ==
    (Dispatched({"ExecES", "Match", "Connect"}) /\ wr.last.ctxErr # ErrNil) =>
        /\ wr.last.ret.invoked = << >>
        /\ wr.last.ret.err = wr.last.ctxErr
        /\ wr.last.ret.err \in {Canceled, DeadlineExceeded}
        /\ wr.last.ret.qCtx = wr.last.before
        /\ wr.qCtx = wr.last.before
        /\ wr.last.method = "ExecES" => wr.last.ret.earlyStop = FALSE
        /\ wr.last.method = "Match" => wr.last.ret.matched = FALSE

\* Match was called with a cancelled context on a matcher that would have
\* answered the query
C12_Witness ==
    /\ Dispatched({"Match"}) /\ wr.last.ctxErr = Canceled
    /\ "Matcher" \in wr.gp.impl
    /\ wr.last.b.eff = "respond" /\ wr.last.b.err = ErrNil
    /\ wr.last.ret.err = Canceled
    /\ wr.qCtx.status = "Unset"

\* C13: for a plugin that implements Executable and not ESExecutable, Is
\* answers true for PITESExecutable, and an ExecES with a live context invokes
\* Exec, once, and nothing else, and returns earlyStop = false
C13_ExecutableAdapted ==
    (wr.pc # "off" /\ "Executable" \in wr.gp.impl /\ "ESExecutable" \notin wr.gp.impl) =>
        /\ PluginWrapper_Is(wr.w, PITESExecutable) = [panic |-> FALSE, v |-> TRUE]
        /\ (wr.last.method = "Is" /\ wr.last.t = PITESExecutable) =>
              wr.last.ret.v = TRUE
        /\ (wr.last.method = "ExecES" /\ wr.last.ctxErr = ErrNil) =>
              /\ wr.last.ret.invoked = <<"Exec">>
              /\ wr.last.ret.earlyStop = FALSE

\* a plugin that is an Executable and nothing else ran through ExecES and
\* answered the query
C13_Witness ==
    /\ Dispatched({"ExecES"}) /\ wr.last.ctxErr = ErrNil
    /\ wr.gp.impl = {"Executable"}
    /\ wr.last.ret.invoked = <<"Exec">>
    /\ wr.last.ret.err = ErrNil /\ wr.last.ret.earlyStop = FALSE
    /\ wr.qCtx.status = "Responded"

\* C14: whenever a method of the plugin was invoked and returned an error,
\* ExecES, Match, Connect and Shutdown return that error wrapped with the tag
\* of the plugin
C14_PluginErrorsWrapped ==
    (/\ Dispatched({"ExecES", "Match", "Connect", "Shutdown"})
     /\ wr.last.ret.invoked # << >>
     /\ wr.last.b.err # ErrNil) =>
        wr.last.ret.err = NewPluginError(Tag(wr.gp), wr.last.b.err)

\* the role a dispatch needs
RoleOf(method) ==
    CASE method = "ExecES" -> PITESExecutable
      [] method = "Match" -> PITMatcher
      [] method = "Connect" -> PITContextConnector
      [] method = "Shutdown" -> PITService

\* the interfaces that make up a role
InterfacesOf(t) ==
    CASE t = PITESExecutable -> {"ESExecutable", "Executable"}
      [] t = PITMatcher -> {"Matcher"}
      [] t = PITContextConnector -> {"ContextConnector"}
      [] t = PITService -> {"Service"}

\* the error under the wrapping of NewPluginError, if any
Cause(err) == IF err.kind = "PluginError" THEN err.err ELSE err

\* the error says that the plugin is not what the dispatch needs
IsMismatch(err) == Cause(err).kind = "errorString"

TagAndTypeIn(err, gp) ==
    /\ Cause(err).kind = "errorString"
    /\ \E i, j \in DOMAIN Cause(err).msg :
          /\ i < j
          /\ Cause(err).msg[i] = Tag(gp)
          /\ Cause(err).msg[j] = Type(gp)

\* C15: the wrapper keeps the fields it was built with; Is answers, for every
\* role, whether the plugin's type implements it; a dispatch with a live
\* context for a role Is denies invokes nothing and fails with an error that
\* names the tag and the type of the plugin, and a dispatch for a role Is
\* grants never fails with that kind of error
C15_IsAgreesWithDispatch ==
    wr.pc # "off" =>
        /\ wr.w = NewPluginWrapper(wr.gp)
        /\ \A t \in PITESExecutable .. PITService :
              PluginWrapper_Is(wr.w, t)
                = [panic |-> FALSE, v |-> InterfacesOf(t) \cap wr.gp.impl # {}]
        /\ (Dispatched({"ExecES", "Match", "Connect", "Shutdown"}) /\ LiveCtx) =>
              IF PluginWrapper_Is(wr.w, RoleOf(wr.last.method)).v
              THEN /\ ~IsMismatch(wr.last.ret.err)
                   /\ wr.last.ret.invoked # << >>
              ELSE /\ wr.last.ret.invoked = << >>
                   /\ TagAndTypeIn(wr.last.ret.err, wr.gp)

\* Connect was dispatched, with a live context, to a plugin that is a matcher
\* and a service but no connector
C15_Witness ==
    /\ Dispatched({"Connect"}) /\ wr.last.ctxErr = ErrNil
    /\ wr.gp.impl = {"Matcher", "Service"}
    /\ wr.last.ret.invoked = << >>
    /\ wr.last.ret.err.kind = "errorString"

\* C20: ExecES returns earlyStop = true only with a nil error; when the method
\* it invoked returned an error, it returns earlyStop = false and an error,
\* whatever earlyStop that method returned
C20_EarlyStopOnlyWithoutError ==
    Dispatched({"ExecES"}) =>
        /\ wr.last.ret.earlyStop => wr.last.ret.err = ErrNil
        /\ (wr.last.ret.invoked # << >> /\ wr.last.b.err # ErrNil) =>
              /\ wr.last.ret.earlyStop = FALSE
              /\ wr.last.ret.err # ErrNil

\* the plugin's ExecES returned earlyStop = true together with an error
C20_Witness ==
    /\ Dispatched({"ExecES"}) /\ wr.last.ctxErr = ErrNil
    /\ wr.last.ret.invoked = <<"ExecES">>
    /\ wr.last.b.earlyStop /\ wr.last.b.err = ErrPlugin
    /\ wr.last.ret.earlyStop = FALSE
    /\ wr.last.ret.err = NewPluginError(Tag(wr.gp), ErrPlugin)

\* ============================================================ hosts
\* Text is a sequence of characters. The patterns of the tables:
dns_google ==
    <<"d", "n", "s", ".", "g", "o", "o", "g", "l", "e">>
test_com ==
    <<"t", "e", "s", "t", ".", "c", "o", "m">>
Test_COM ==
    <<"T", "e", "s", "t", ".", "C", "O", "M">>
nxdomain_com ==
    <<"n", "x", "d", "o", "m", "a", "i", "n", ".", "c", "o", "m">>
re_123456789_anchored ==
    <<"^", "1", "2", "3", "4", "5", "6", "7", "8", "9">>
re_123456789 ==
    <<"1", "2", "3", "4", "5", "6", "7", "8", "9">>
re_test_end ==
    <<"t", "e", "s", "t", ".", "$">>

\* the names asked for
dns_google_ ==
    <<"d", "n", "s", ".", "g", "o", "o", "g", "l", "e", ".">>
nxdomain_com_ ==
    <<"n", "x", "d", "o", "m", "a", "i", "n", ".", "c", "o", "m", ".">>
sub_dns_google_ ==
    <<"s", "u", "b", ".", "d", "n", "s", ".", "g", "o", "o", "g", "l", "e",
    ".">>
n123456789_test_ ==
    <<"1", "2", "3", "4", "5", "6", "7", "8", "9", ".", "t", "e", "s", "t",
    ".">>
n0123456789_test_ ==
    <<"0", "1", "2", "3", "4", "5", "6", "7", "8", "9", ".", "t", "e", "s",
    "t", ".">>
test_com_ ==
    <<"t", "e", "s", "t", ".", "c", "o", "m", ".">>

TypeA == 1
TypeAAAA == 28

\* a line of a table: whether its first character after the leading blanks is
\* '#', the pattern (its prefix before ':', if any, and its text) and the
\* address fields that follow
NoPat == [typ |-> "none"]
Pat(typ, p) == [typ |-> typ, p |-> p]
BlankLine == [hash |-> FALSE, pat |-> NoPat, addrs |-> << >>]
HashLine(pat, addrs) == [hash |-> TRUE, pat |-> pat, addrs |-> addrs]
EntryLine(pat, addrs) == [hash |-> FALSE, pat |-> pat, addrs |-> addrs]

\* the table of the test
test_hosts ==
    << BlankLine,
       HashLine(NoPat, << >>),
       HashLine(NoPat, << >>),
       EntryLine(Pat("", dns_google),
                 <<"8.8.8.8", "8.8.4.4", "2001:4860:4860::8844", "2001:4860:4860::8888">>),
       EntryLine(Pat("regexp", re_123456789_anchored), <<"192.168.1.1">>),
       EntryLine(Pat("", test_com), <<"1.2.3.4">>),
       EntryLine(Pat("", test_com), <<"2.3.4.5">>),
       HashLine(Pat("", nxdomain_com), <<"1.2.3.4">>),
       BlankLine >>

\* net.ParseIP, on the address texts in use
IPv4s == {"8.8.8.8", "8.8.4.4", "192.168.1.1", "1.2.3.4", "2.3.4.5"}
IPv6s == {"2001:4860:4860::8844", "2001:4860:4860::8888"}

parseIP(s) ==
    IF s \in IPv4s THEN [ok |-> TRUE, fam |-> "v4", ip |-> s]
    ELSE IF s \in IPv6s THEN [ok |-> TRUE, fam |-> "v6", ip |-> s]
    ELSE [ok |-> FALSE]

ToLowerCh(c) ==
    CASE c = "T" -> "t" [] c = "C" -> "c" [] c = "O" -> "o" [] c = "M" -> "m"
      [] OTHER -> c

ToLower(t) == [i \in DOMAIN t |-> ToLowerCh(t[i])]

Fqdn(t) == IF Len(t) > 0 /\ t[Len(t)] = "." THEN t ELSE Append(t, ".")

\* a regular expression of characters, '.', a leading '^' and a trailing '$',
\* matched anywhere in the name unless anchored
RegexpMatch(expr, name) ==
    LET atStart == Len(expr) > 0 /\ expr[1] = "^"
        atEnd == Len(expr) > 0 /\ expr[Len(expr)] = "$"
        body == SubSeq(expr, IF atStart THEN 2 ELSE 1,
                             IF atEnd THEN Len(expr) - 1 ELSE Len(expr))
        n == Len(body)
    IN  \E i \in 1 .. Len(name) - n + 1 :
            /\ atStart => i = 1
            /\ atEnd => i + n - 1 = Len(name)
            /\ \A j \in 1 .. n : body[j] = "." \/ body[j] = name[i + j - 1]

\* the pattern as the matcher keeps it
Normal(pat) ==
    IF pat.typ = "regexp" THEN pat ELSE Pat("", Fqdn(ToLower(pat.p)))

\* a literal pattern taken for a domain: its subdomains match too
PatternMatches_Subdomains(pat, name) ==
    IF pat.typ = "regexp" THEN RegexpMatch(pat.p, name)
    ELSE LET n == ToLower(name) IN
         /\ Len(n) >= Len(pat.p)
         /\ SubSeq(n, Len(n) - Len(pat.p) + 1, Len(n)) = pat.p
         /\ Len(n) > Len(pat.p) => n[Len(n) - Len(pat.p)] = "."

\* does the kept pattern match the name
PatternMatches(pat, name) ==
    IF pat.typ = "regexp" THEN RegexpMatch(pat.p, name)
    ELSE ToLower(name) = pat.p

ParseIPs(addrs) == [i \in DOMAIN addrs |-> parseIP(addrs[i])]

\* the matcher: the patterns in the order they were first added, each with
\* its addresses
\* a line for a pattern the matcher already has replacing the addresses
Add_Replaces(m, pat, ips) ==
    IF \E i \in DOMAIN m : m[i].pat = pat
    THEN [i \in DOMAIN m |->
             IF m[i].pat = pat THEN [pat |-> pat, ips |-> ips] ELSE m[i]]
    ELSE Append(m, [pat |-> pat, ips |-> ips])

\* a line for a pattern the matcher already has appends its addresses
Add(m, pat, ips) ==
    IF \E i \in DOMAIN m : m[i].pat = pat
    THEN [i \in DOMAIN m |->
             IF m[i].pat = pat THEN [pat |-> pat, ips |-> m[i].ips \o ips]
             ELSE m[i]]
    ELSE Append(m, [pat |-> pat, ips |-> ips])

\* domain.LoadFromTextReader: blank lines and comments are skipped, a line
\* with an address that does not parse fails the load
RECURSIVE LoadFromTextReader(_, _, _)
LoadFromTextReader(m, lines, n) ==
    IF lines = << >> THEN [err |-> "nil", line |-> 0, m |-> m]
    ELSE LET l == Head(lines) IN
         IF l.hash \/ l.pat = NoPat
         THEN LoadFromTextReader(m, Tail(lines), n + 1)
         ELSE LET ips == ParseIPs(l.addrs) IN
              IF \E i \in DOMAIN ips : ~ips[i].ok
              THEN [err |-> "invalid ip", line |-> n, m |-> << >>]
              ELSE LoadFromTextReader(Add(m, Normal(l.pat), ips), Tail(lines), n + 1)

Hits(m, name) == {i \in DOMAIN m : PatternMatches(m[i].pat, name)}

HasFamily(fam, ips) == SelectSeq(ips, LAMBDA x : x.fam = fam)

\* hostsContainer.matchAndSet; pick: the pattern the matcher settles on when
\* several match
matchAndSet(m, qCtx, pick) ==
    LET q == qCtx.q
        name == q.Question.Name
        typ == q.Question.Qtype
    IN  IF Hits(m, name) = {}
        THEN [matched |-> FALSE, qCtx |-> qCtx, pat |-> NoPat]
        ELSE LET ips == HasFamily(IF typ = TypeA THEN "v4" ELSE "v6", m[pick].ips)
                 r == [Id |-> q.Id, Question |-> q.Question,
                       Rcode |-> RcodeSuccess, Truncated |-> FALSE,
                       Answer |-> [i \in DOMAIN ips |->
                                      [Name |-> name, Rrtype |-> typ,
                                       Addr |-> ips[i].ip]]]
             IN  [matched |-> TRUE,
                  qCtx |-> SetResponse(qCtx, Own(r), "Responded"),
                  pat |-> m[pick].pat]

\* ------------------------------------------------ tables and lookups
Lines ==
    { BlankLine,
      HashLine(Pat("", nxdomain_com), <<"1.2.3.4">>),
      EntryLine(Pat("", dns_google), <<"8.8.8.8", "2001:4860:4860::8844">>),
      EntryLine(Pat("", dns_google), <<"2001:4860:4860::8888">>),
      EntryLine(Pat("", test_com), <<"1.2.3.4">>),
      EntryLine(Pat("", test_com), <<"2.3.4.5">>),
      EntryLine(Pat("", Test_COM), <<"8.8.4.4">>),
      EntryLine(Pat("regexp", re_123456789_anchored), <<"192.168.1.1">>),
      EntryLine(Pat("regexp", re_123456789), <<"1.2.3.4">>),
      EntryLine(Pat("regexp", re_test_end), <<"2.3.4.5">>),
      EntryLine(Pat("", test_com), <<"1.2.3.4", "not an address">>) }

Tables == {test_hosts} \cup UNION {[1 .. n -> Lines] : n \in 0 .. MaxLines}

HNames ==
    {dns_google_, nxdomain_com_, sub_dns_google_, n123456789_test_,
     n0123456789_test_, test_com_}

HQueries ==
    {[Id |-> id, Question |-> [Name |-> n, Qtype |-> t, Qclass |-> 1]] :
        id \in {1, 2}, n \in HNames, t \in {TypeA, TypeAAAA}}

NoLookup == [done |-> FALSE]

\* a table is at hand
HInit ==
    /\ MainIdle
    /\ eq = [pc |-> "off"]
    /\ wr = [pc |-> "off"]
    /\ \E table \in Tables :
          hs = [pc |-> "table", table |-> table, m |-> << >>, err |-> "-",
                last |-> NoLookup]

\* the table is loaded into the matcher
HLoad ==
    /\ hs.pc = "table"
    /\ LET l == LoadFromTextReader(<< >>, hs.table, 1) IN
       hs' = [hs EXCEPT !.pc = IF l.err = "nil" THEN "loaded" ELSE "failed",
                        !.m = l.m, !.err = l.err]
    /\ UNCHANGED <<main, eq, wr>>

\* a query gets its context and goes through matchAndSet
HMatchAndSet ==
    /\ hs.pc = "loaded"
    /\ \E q \in HQueries :
          \E pick \in (IF Hits(hs.m, q.Question.Name) = {} THEN {0}
                       ELSE Hits(hs.m, q.Question.Name)) :
             LET r == matchAndSet(hs.m, NewContext(q), pick) IN
             hs' = [hs EXCEPT !.last = [done |-> TRUE, q |-> q, res |-> r]]
    /\ UNCHANGED <<main, eq, wr>>

HNext == HLoad \/ HMatchAndSet

SpecH == HInit /\ [][HNext]_vars

\* --------------------------------------------------- claims on hosts
Looked == hs.pc = "loaded" /\ hs.last.done

\* the lines of a table that are neither blank nor comments
EntryLines(table) ==
    {i \in DOMAIN table : ~table[i].hash /\ table[i].pat # NoPat}

\* the name is, as a fully-qualified name and whatever the case of the
\* letters, a literal pattern of the table, or a regexp pattern of the table
\* matches it
TableMatches(table, name) ==
    \E i \in EntryLines(table) :
        IF table[i].pat.typ = "regexp"
        THEN RegexpMatch(table[i].pat.p, name)
        ELSE Fqdn(ToLower(table[i].pat.p)) = ToLower(name)

\* what the test wants for its table
wantMatched(name) == name \in {dns_google_, n123456789_test_, test_com_}

wantAddr(name, typ) ==
    IF name = dns_google_ /\ typ = TypeA THEN {"8.8.8.8", "8.8.4.4"}
    ELSE IF name = dns_google_ /\ typ = TypeAAAA
    THEN {"2001:4860:4860::8844", "2001:4860:4860::8888"}
    ELSE IF name = n123456789_test_ /\ typ = TypeA THEN {"192.168.1.1"}
    ELSE IF name = test_com_ /\ typ = TypeA THEN {"1.2.3.4", "2.3.4.5"}
    ELSE {}

\* C16: matchAndSet reports a match exactly for the names that are a literal
\* pattern of the table or that a regexp pattern of the table matches as it is
\* written; the matcher holds the patterns of the entry lines and no other;
\* without a match the context is left as it was; for the table of the test
\* the outcome is the one the test wants
C16_HostsMatching ==
    Looked =>
        LET name == hs.last.q.Question.Name IN
        /\ hs.last.res.matched <=> TableMatches(hs.table, name)
        /\ {hs.m[i].pat : i \in DOMAIN hs.m}
             = {Normal(hs.table[i].pat) : i \in EntryLines(hs.table)}
        /\ ~hs.last.res.matched => hs.last.res.qCtx = NewContext(hs.last.q)
        /\ hs.table = test_hosts => (hs.last.res.matched <=> wantMatched(name))

\* with the table of the test, a name under dns.google. was asked for and not
\* matched
C16_Witness ==
    /\ Looked /\ hs.table = test_hosts
    /\ hs.last.q.Question.Name = sub_dns_google_
    /\ ~hs.last.res.matched
    /\ hs.last.res.qCtx.status = "Unset"

\* the addresses of the family of the query type that the entry lines of a
\* pattern give, all lines together
AddressesFor(table, pat, typ) ==
    UNION {{table[i].addrs[j] : j \in DOMAIN table[i].addrs} :
              i \in {k \in EntryLines(table) : Normal(table[k].pat) = pat}}
    \cap (IF typ = TypeA THEN IPv4s ELSE IPv6s)

\* C17: on a match the context gets, with the status Responded and the ID of
\* the query, a response whose answer records are of the type asked for and
\* carry exactly the addresses of that family given, on any line of the table,
\* for the pattern that matched; with no such address the answer section is
\* empty and the query is matched all the same; for the table of the test the
\* addresses the test wants are among the answers
C17_HostsAnswer ==
    (Looked /\ hs.last.res.matched) =>
        LET q == hs.last.q
            name == q.Question.Name
            typ == q.Question.Qtype
            r == Deref(hs.last.res.qCtx.r, EmptyCache)
            pat == hs.last.res.pat
            addrs == {r.Answer[i].Addr : i \in DOMAIN r.Answer}
        IN  /\ hs.last.res.qCtx.status = "Responded"
            /\ r # NilMsg /\ r.Id = q.Id /\ r.Question = q.Question
            /\ \E i \in EntryLines(hs.table) : Normal(hs.table[i].pat) = pat
            /\ IF pat.typ = "regexp" THEN RegexpMatch(pat.p, name)
               ELSE pat.p = ToLower(name)
            /\ \A i \in DOMAIN r.Answer :
                  r.Answer[i].Rrtype = typ /\ r.Answer[i].Name = name
            /\ addrs = AddressesFor(hs.table, pat, typ)
            /\ AddressesFor(hs.table, pat, typ) = {} => r.Answer = << >>
            /\ hs.table = test_hosts => wantAddr(name, typ) \subseteq addrs

\* with the table of the test, test.com. was asked for, type A, and the answer
\* has the addresses of both of its lines
C17_Witness ==
    /\ Looked /\ hs.table = test_hosts
    /\ hs.last.q.Question.Name = test_com_
    /\ hs.last.q.Question.Qtype = TypeA
    /\ hs.last.res.matched
    /\ Len(Deref(hs.last.res.qCtx.r, EmptyCache).Answer) = 2

====
